---- MODULE Spec2Model ----
(***************************************************************************)
(* Chunked CSV -> SQL loaders of scripts/load_single.py (one table, with   *)
(* reconnect-and-retry and resume) and scripts/load_csvs.py (all tables    *)
(* of a folder, one connection, no retry).                                 *)
(*                                                                         *)
(* A source row is the number of its data line (1..csv_rows); the header   *)
(* is not a row.  The database is the committed rows of every table plus   *)
(* the rows of the open transaction of the one live session.  A statement  *)
(* that raises has changed nothing; closing a session, losing it, or the   *)
(* end of the process discards its open transaction.                       *)
(***************************************************************************)
EXTENDS Integers, Sequences, FiniteSets, TLC

\* ---------------------------------------------------------------- bounds
MaxRows == 3
MaxChunk == 2
MaxCadence == 2
MaxRetries == 1
MaxRuns == 2
NumTables == 2
MaxCols == 2
MaxSpellings == 1
MaxSourceRows == 10
MaxBatch == 3

Tables == 1..NumTables

VARIABLES
  loader,          \* "single" (load_single.py) or "multi" (load_csvs.py)
  run,             \* number of the process run (1..MaxRuns)
  prev,            \* how the previous run ended ("none" in the first run)
  args,            \* parsed command line of this run
  committed,       \* committed[t]: durable rows of table t, in insertion order
  uncommitted,     \* rows inserted in the open transaction of the live session
  pc,              \* position of the process
  err,             \* the fatal condition met by this run ("none" if none)
  exitCode,        \* exit code of the process once it has ended
  table,           \* table being loaded (always 1 in load_single.py)
  skip_rows,       \* load_single.py: data rows skipped at the head of the file
  pos,             \* data rows the reader has consumed (skipped rows included)
  chunk,           \* the chunk in hand
  batchStart,      \* history: committed[table] when the chunk in hand was read
  attempt,         \* load_single.py: failures counted on the chunk in hand
  tries,           \* history: insert_chunk calls made for the chunk in hand
  fault,           \* history: what the last of these calls raised (load_single.py)
  pending_chunks,  \* load_single.py: chunks counted since the last commit
  total_inserted,  \* load_single.py: rows counted as inserted in this run
  pending_batches, \* load_csvs.py: batches counted since the last commit
  total,           \* load_csvs.py: rows counted as inserted in this table
  runStart,        \* history: committed when this run started
  loadStart,       \* history: committed[table] when this table's load started
  lastCommit,      \* history: committed[table] after the last commit that succeeded
  csv_cols,        \* df.columns: the field names of the CSV header, in file order
  table_cols,      \* column names of the target table, in ordinal position
  chunk_index,     \* load_single.py: number of the batch in hand (batches read so far)
  dir_files,       \* load_csvs.py: the names os.listdir(csv_dir) returns
  csv_files,       \* load_csvs.py: the list ordered_csv_files returned (<< >> before)
  loaded,          \* history: the files load_csv was called for in this run, in order
  bound_cols       \* df[ordered_cols]: the source field bound to each target column
                   \* by the last executemany (<< >> before the first one)

vars == <<loader, run, prev, args, committed, uncommitted, pc, err, exitCode,
          table, skip_rows, pos, chunk, batchStart, attempt, tries, fault, pending_chunks,
          total_inserted, pending_batches, total, runStart, loadStart, lastCommit,
          csv_cols, table_cols, chunk_index, dir_files, csv_files, loaded, bound_cols>>

\* ------------------------------------------------------------- helpers
Min(a, b) == IF a < b THEN a ELSE b

\* rows a+1 .. b of the source file, in file order
Rows(a, b) == [i \in 1..(IF b > a THEN b - a ELSE 0) |-> a + i]

Ended == pc \in {"done", "failed", "crashed"}

\* SELECT COUNT(*): the session sees the committed rows and its own transaction
current_rowcount(comm, unc) == Len(comm) + Len(unc)

S_truncate_table_skipped(rows) == rows
\* TRUNCATE TABLE (load_csvs.py falls back to DELETE FROM): no row is left
S_truncate_table(rows) == << >>
M_truncate_table(rows) == << >>

S_first_row_off_by_one(skip) == IF skip > 0 THEN skip + 1 ELSE 0
\* skiprows=range(1, skip_rows+1) if skip_rows > 0 else None: the number of data
\* rows the reader passes over after the header (the header line 0 is kept)
S_first_row(skip) == IF skip > 0 THEN skip ELSE 0

\* the lines of the file (0 is the header, 1.. are the data rows) that
\* skiprows names
S_skiprows(skip) == IF skip > 0 THEN 1..skip ELSE {}

\* the next chunk pandas yields: at most chunksize rows, in file order
NextChunk(p, size, n) == Rows(p, Min(p + size, n))

\* conn.commit(): the transaction's rows become durable, after those before
commit(comm, unc) == comm \o unc

S_commit_due_late(pending, every) == pending > every
\* load_single.py `if pending_chunks >= args.commit_every`
S_commit_due(pending, every) == pending >= every
M_commit_due_late(pending, every) == pending > every
\* load_csvs.py `if pending_batches >= commit_every`
M_commit_due(pending, every) == pending >= every

S_retries_exceeded_early(att, ceiling) == att >= ceiling
S_retries_exceeded_late(att, ceiling) == att > ceiling + 1
S_is_OperationalError_any(raised) == TRUE
\* load_single.py `except pyodbc.OperationalError as e`: the errors of the
\* connectivity class are caught, every other exception leaves main
S_is_OperationalError(raised) == raised = "transient"

\* what a call of insert_chunk raised: nothing, an error of the connectivity
\* class, or another error (ValueError of the column check, a constraint or
\* type error of the server)
S_fault(outcome) ==
  IF outcome = "ok" THEN "none"
  ELSE IF outcome = "transient" THEN "transient" ELSE "nontransient"

\* load_single.py `if attempt > args.max_retries: raise`
S_retries_exceeded(att, ceiling) == att > ceiling

S_close_commits(comm, unc) == comm \o unc
\* load_single.py finally: cur.close(); conn.close() -- the open transaction goes
S_close(comm, unc) == comm
M_rollback_commits(comm, unc) == comm \o unc
\* load_csvs.py except: conn.rollback()
M_rollback(comm, unc) == comm

M_after_failure_continue(t) == t + 1
\* load_csvs.py except: ...; break -- the table that is loaded after a failed one
\* (NumTables + 1: none, the loop is left)
M_after_failure(t) == NumTables + 1

\* ------------------------------------------------------ column names
\* A name is <<letters, spelling>>: spelling 0 is the all-lower-case spelling
\* of the letters ("id"), the other spellings differ from it in case only
\* ("ID", "Id").  Names with different letters differ in every spelling.
NameLetters == {"id", "name"}
Names == NameLetters \X (0..MaxSpellings)

\* str.lower()
Lower(c) == <<c[1], 0>>

Range(f) == {f[i] : i \in DOMAIN f}

\* lists of at most MaxCols names in which no name occurs twice (pandas renames
\* a repeated header field, INFORMATION_SCHEMA lists a column once)
NameLists ==
  {l \in UNION {[1..n -> Names] : n \in 1..MaxCols} :
     \A i, j \in DOMAIN l : i # j => l[i] # l[j]}

\* column lists of a table: its names are distinct ignoring case (the
\* collation of the database compares identifiers without case)
TableColumnLists ==
  {l \in NameLists : \A i, j \in DOMAIN l : i # j => Lower(l[i]) # Lower(l[j])}

\* insert_chunk: csv_lower = {c.lower(): c for c in csv_cols} -- of the fields
\* with the same lower-case name the last one stays
csv_lower(cols) ==
  [k \in {Lower(cols[i]) : i \in DOMAIN cols} |->
     LET last == CHOOSE i \in DOMAIN cols :
                   /\ Lower(cols[i]) = k
                   /\ \A j \in DOMAIN cols : Lower(cols[j]) = k => j <= i
     IN  cols[last]]

\* sql_lower = [c.lower() for c in table_cols]
sql_lower(tcols) == [i \in DOMAIN tcols |-> Lower(tcols[i])]

missing_case_sensitive(tcols, cols) ==
  SelectSeq(tcols, LAMBDA c : c \notin Range(cols))
\* missing = [c for c in table_cols if c.lower() not in csv_lower]
missing(tcols, cols) ==
  SelectSeq(tcols, LAMBDA c : Lower(c) \notin DOMAIN csv_lower(cols))

\* extra = [c for c in csv_cols if c.lower() not in set(sql_lower)]
extra(tcols, cols) ==
  SelectSeq(cols, LAMBDA c : Lower(c) \notin Range(sql_lower(tcols)))

\* ordered_cols = [csv_lower[c.lower()] for c in table_cols]
ordered_cols(tcols, cols) ==
  [i \in DOMAIN tcols |-> csv_lower(cols)[Lower(tcols[i])]]

\* insert_chunk up to executemany: the ValueError it raises ("none" if none) and
\* the source fields it binds, in target column order
insert_chunk(tcols, cols) ==
  IF missing(tcols, cols) # << >>
    THEN [error |-> "missing_columns", bound |-> << >>]
    ELSE IF extra(tcols, cols) # << >>
      THEN [error |-> "extra_columns", bound |-> << >>]
      ELSE [error |-> "none", bound |-> ordered_cols(tcols, cols)]

\* ------------------------------------------------------ file names
\* A file name is its stem and its extension, as os.path.splitext splits it.
File(stem, ext) == [stem |-> stem, ext |-> ext]

\* load_csvs.py PREFERRED_LOAD_ORDER
PREFERRED_LOAD_ORDER ==
  << File("organizations", ".csv"), File("providers", ".csv"), File("payers", ".csv"),
     File("patients", ".csv"), File("payer_transitions", ".csv"),
     File("encounters", ".csv"), File("conditions", ".csv"), File("procedures", ".csv"),
     File("medications", ".csv"), File("immunizations", ".csv"),
     File("observations", ".csv"), File("imaging_studies", ".csv"),
     File("supplies", ".csv"), File("devices", ".csv"), File("allergies", ".csv"),
     File("careplans", ".csv"), File("claims", ".csv"),
     File("claims_transactions", ".csv") >>

\* the names a directory is made of: files of the preferred order, other CSV
\* files (one with a capital first letter, one with the extension in capitals
\* whose lower-case name is in the preferred order) and a file that is no CSV
FileUniverse ==
  << File("notes", ".txt"), File("patients", ".csv"), File("Zips", ".csv"),
     File("organizations", ".csv"), File("accounts", ".csv"),
     File("devices", ".CSV"), File("providers", ".csv") >>

\* the stems and extensions of FileUniverse in the order Python compares
\* strings (by code point: capitals before small letters)
StemsInOrder ==
  << "Zips", "accounts", "devices", "notes", "organizations", "patients", "providers" >>
ExtsInOrder == << ".CSV", ".csv", ".txt" >>

IndexIn(seq, x) == CHOOSE i \in DOMAIN seq : seq[i] = x

\* f < g for two file names (str.__lt__)
Before(f, g) ==
  \/ IndexIn(StemsInOrder, f.stem) < IndexIn(StemsInOrder, g.stem)
  \/ f.stem = g.stem /\ IndexIn(ExtsInOrder, f.ext) < IndexIn(ExtsInOrder, g.ext)

\* f.lower().endswith(".csv")
endswith_csv(f) == f.ext \in {".csv", ".CSV"}

sorted_descending(S) ==
  CHOOSE sq \in [1..Cardinality(S) -> S] :
    \A i, j \in DOMAIN sq : i < j => Before(sq[j], sq[i])
\* sorted(existing): the names of S in ascending order
sorted(S) ==
  CHOOSE sq \in [1..Cardinality(S) -> S] :
    \A i, j \in DOMAIN sq : i < j => Before(sq[i], sq[j])

\* ordered_csv_files: the preferred files that exist, in the preferred order,
\* then the other existing files, sorted
ordered_csv_files(listdir) ==
  LET existing == {f \in listdir : endswith_csv(f)}
      ordered == SelectSeq(PREFERRED_LOAD_ORDER, LAMBDA f : f \in existing)
      used == Range(ordered)
  IN  ordered \o SelectSeq(sorted(existing), LAMBDA f : f \notin used)

\* ---------------------------------------------------------------- Init
ArgSets ==
  [csv_rows : 0..MaxRows, chunksize : 1..MaxChunk, commit_every : 1..MaxCadence,
   max_retries : 0..MaxRetries, truncate : BOOLEAN, resume : BOOLEAN]

\* the headers and tables the loads are run on: the same names in another case
\* and order, a target column without source field, a source field without
\* target column
ColumnCases ==
  {[csv |-> << <<"name", 1>>, <<"id", 1>> >>, tab |-> << <<"id", 0>>, <<"name", 0>> >>],
   [csv |-> << <<"id", 0>> >>,               tab |-> << <<"id", 0>>, <<"name", 0>> >>],
   [csv |-> << <<"id", 0>>, <<"name", 1>> >>, tab |-> << <<"id", 1>> >>]}

\* the state when the first run of a loader starts: arguments from argSet,
\* header and table columns from colSet, the first table holding the first n
\* rows of the file for an n of heldSet, the other tables empty, the directory
\* of load_csvs.py from dirSet (load_single.py reads no directory)
InitWith(argSet, colSet, heldSet, dirSet) ==
  /\ loader \in {"single", "multi"}
  /\ run = 1
  /\ prev = "none"
  /\ args \in argSet
  /\ loader = "multi" => (args.resume = FALSE /\ args.max_retries = 0)
  /\ \E n \in heldSet : committed = [t \in Tables |-> IF t = 1 THEN Rows(0, n) ELSE << >>]
  /\ uncommitted = << >>
  /\ pc = "start"
  /\ err = "none"
  /\ exitCode = 0
  /\ table = 1
  /\ skip_rows = 0
  /\ chunk_index = 0
  /\ pos = 0
  /\ chunk = << >>
  /\ batchStart = << >>
  /\ attempt = 0
  /\ tries = 0
  /\ fault = "none"
  /\ pending_chunks = 0
  /\ total_inserted = 0
  /\ pending_batches = 0
  /\ total = 0
  /\ runStart = committed
  /\ loadStart = << >>
  /\ lastCommit = << >>
  /\ \E c \in colSet : csv_cols = c.csv /\ table_cols = c.tab
  /\ bound_cols = << >>
  /\ dir_files \in (IF loader = "single" THEN {{}} ELSE dirSet)
  /\ csv_files = << >>
  /\ loaded = << >>

\* the directories the loads are run on: one without CSV file, one with a file
\* that is no CSV and as many CSV files as there are tables
DirectoryCases ==
  {{FileUniverse[1]}, {FileUniverse[i] : i \in 1..(NumTables + 1)}}

Init == InitWith(ArgSets, ColumnCases, {0}, DirectoryCases)

\* every header against every table, for loads of one batch of one row
ColumnArgSets ==
  [csv_rows : {1}, chunksize : {1}, commit_every : {1}, max_retries : {0, 1},
   truncate : BOOLEAN, resume : BOOLEAN]

AllColumns == [csv : NameLists, tab : TableColumnLists]

InitColumns == InitWith(ColumnArgSets, AllColumns, {0}, DirectoryCases)

\* load_single.py on longer files in larger batches, the target holding a
\* prefix of the file, the header matching the table
ReaderArgSets ==
  [csv_rows : 0..MaxSourceRows, chunksize : 1..MaxBatch, commit_every : 1..MaxCadence,
   max_retries : {0}, truncate : BOOLEAN, resume : BOOLEAN]

MatchingColumns == {c \in ColumnCases : insert_chunk(c.tab, c.csv).error = "none"}

InitReader ==
  /\ InitWith(ReaderArgSets, MatchingColumns, 0..MaxSourceRows, DirectoryCases)
  /\ loader = "single"
  /\ Len(committed[1]) <= args.csv_rows

baseVars == <<loader, run, prev, args, runStart, csv_cols, table_cols, dir_files>>
\* load_csvs.py on every directory of at most NumTables CSV files, each file
\* of one row
DirectoryArgSets ==
  [csv_rows : {1}, chunksize : {1}, commit_every : {1, 2}, max_retries : {0},
   truncate : BOOLEAN, resume : {FALSE}]

Directories ==
  {d \in SUBSET Range(FileUniverse) :
     Cardinality({f \in d : endswith_csv(f)}) <= NumTables}

InitDirectories ==
  /\ InitWith(DirectoryArgSets, MatchingColumns, {0}, Directories)
  /\ loader = "multi"

runVars == <<baseVars, csv_files, loaded>>
singleVars == <<skip_rows, chunk_index, attempt, tries, fault, pending_chunks, total_inserted>>
multiVars == <<pending_batches, total>>

\* ------------------------------------------------ load_single.py: main
\* An exception that leaves main: the finally block closes the session and
\* the interpreter ends with a traceback and exit code 1.
S_Raise(reason) ==
  /\ pc' = "failed"
  /\ err' = reason
  /\ exitCode' = 1
  /\ committed' = [committed EXCEPT ![table] = S_close(committed[table], uncommitted)]
  /\ uncommitted' = << >>

\* table_cols = get_table_columns(...): raises when the table has no columns
S_GetColumns ==
  /\ loader = "single" /\ pc = "start"
  /\ \E exists \in BOOLEAN :
       IF exists
         THEN /\ pc' = "truncate"
              /\ loadStart' = committed[table]
              /\ lastCommit' = committed[table]
              /\ UNCHANGED <<err, exitCode, committed, uncommitted>>
         ELSE /\ S_Raise("no_table")
              /\ loadStart' = committed[table]
              /\ lastCommit' = committed[table]
  /\ UNCHANGED <<runVars, singleVars, multiVars, table, pos, chunk, batchStart, bound_cols>>

\* if args.truncate: truncate_table(...); conn.commit()
S_Truncate ==
  /\ loader = "single" /\ pc = "truncate"
  /\ IF args.truncate
       THEN \E ok \in BOOLEAN :
              IF ok
                THEN /\ committed' = [committed EXCEPT
                                        ![table] = S_truncate_table(committed[table])]
                     /\ lastCommit' = committed'[table]
                     /\ pc' = "resume"
                     /\ UNCHANGED <<err, exitCode, uncommitted>>
                ELSE /\ S_Raise("truncate_error")
                     /\ UNCHANGED lastCommit
       ELSE /\ pc' = "resume"
            /\ UNCHANGED <<err, exitCode, committed, uncommitted, lastCommit>>
  /\ UNCHANGED <<runVars, singleVars, multiVars, table, pos, chunk, batchStart, loadStart, bound_cols>>

\* skip_rows = 0; if args.resume: skip_rows = current_rowcount(...)
S_Resume ==
  /\ loader = "single" /\ pc = "resume"
  /\ skip_rows' = IF args.resume
                    THEN current_rowcount(committed[table], uncommitted)
                    ELSE 0
  /\ pc' = "open"
  /\ UNCHANGED <<runVars, multiVars, committed, uncommitted, err, exitCode, table,
                 chunk_index, pos, chunk, batchStart, attempt, tries, fault, pending_chunks, total_inserted,
                 loadStart, bound_cols, lastCommit>>

\* reader = pd.read_csv(args.csv, chunksize=..., skiprows=skip); counters = 0
S_Open ==
  /\ loader = "single" /\ pc = "open"
  /\ \E found \in BOOLEAN :
       IF found
         THEN /\ pos' = S_first_row(skip_rows)
              /\ total_inserted' = 0
              /\ pending_chunks' = 0
              /\ chunk_index' = 0
              /\ pc' = "read"
              /\ UNCHANGED <<err, exitCode, committed, uncommitted>>
         ELSE /\ S_Raise("no_source")
              /\ UNCHANGED <<pos, total_inserted, pending_chunks, chunk_index>>
  /\ UNCHANGED <<runVars, multiVars, table, chunk, batchStart, skip_rows, attempt, tries, fault,
                 loadStart, bound_cols, lastCommit>>

\* for chunk in reader: chunk_index += 1; ...; attempt = 0
\* (the loop ends at end of file)
S_Read ==
  /\ loader = "single" /\ pc = "read"
  /\ IF pos < args.csv_rows
       THEN /\ chunk' = NextChunk(pos, args.chunksize, args.csv_rows)
            /\ chunk_index' = chunk_index + 1
            /\ batchStart' = committed[table]
            /\ pos' = pos + Len(chunk')
            /\ attempt' = 0
            /\ tries' = 0
            /\ fault' = "none"
            /\ pc' = "insert"
       ELSE /\ pc' = "final"
            /\ UNCHANGED <<chunk, chunk_index, batchStart, pos, attempt, tries, fault>>
  /\ UNCHANGED <<runVars, multiVars, committed, uncommitted, err, exitCode, table,
                 skip_rows, pending_chunks, total_inserted, loadStart, bound_cols, lastCommit>>

\* except pyodbc.OperationalError: attempt += 1; raise beyond the ceiling,
\* else sleep, close the dead session (its transaction goes with it)
S_OnOperationalError ==
  /\ attempt' = attempt + 1
  /\ IF S_retries_exceeded(attempt', args.max_retries)
       THEN S_Raise("retries")
       ELSE /\ pc' = "reconnect"
            /\ committed' = [committed EXCEPT
                               ![table] = S_close(committed[table], uncommitted)]
            /\ uncommitted' = << >>
            /\ UNCHANGED <<err, exitCode>>

\* insert_chunk(...); pending_chunks += 1; total_inserted += len(chunk)
\* The ValueError of insert_chunk is no OperationalError: it leaves main.
S_Insert ==
  /\ loader = "single" /\ pc = "insert"
  /\ tries' = tries + 1
  /\ LET checked == insert_chunk(table_cols, csv_cols)
         outcomes == IF checked.error # "none"
                       THEN {checked.error}
                       ELSE {"ok", "transient", "nontransient"}
     IN  \E outcome \in outcomes :
           /\ fault' = S_fault(outcome)
           /\ bound_cols' = IF checked.error # "none" THEN bound_cols ELSE checked.bound
           /\ CASE outcome = "ok" ->
                     /\ uncommitted' = uncommitted \o chunk
                     /\ pending_chunks' = pending_chunks + 1
                     /\ total_inserted' = total_inserted + Len(chunk)
                     /\ pc' = IF S_commit_due(pending_chunks', args.commit_every)
                                THEN "commit" ELSE "read"
                     /\ UNCHANGED <<committed, err, exitCode, attempt>>
                [] outcome # "ok" /\ S_is_OperationalError(outcome) ->
                     /\ S_OnOperationalError
                     /\ UNCHANGED <<pending_chunks, total_inserted>>
                [] outcome # "ok" /\ ~S_is_OperationalError(outcome) ->
                     /\ S_Raise(outcome)
                     /\ UNCHANGED <<pending_chunks, total_inserted, attempt>>
  /\ UNCHANGED <<runVars, multiVars, table, skip_rows, chunk_index, pos, chunk, batchStart, loadStart,
                 lastCommit>>

\* conn.commit(); pending_chunks = 0        (inside the retry loop's try)
S_Commit ==
  /\ loader = "single" /\ pc = "commit"
  /\ \E outcome \in {"ok", "transient"} :
       IF outcome = "ok"
         THEN /\ committed' = [committed EXCEPT
                                 ![table] = commit(committed[table], uncommitted)]
              /\ uncommitted' = << >>
              /\ lastCommit' = committed'[table]
              /\ pending_chunks' = 0
              /\ pc' = "read"
              /\ UNCHANGED <<err, exitCode, attempt>>
         ELSE /\ S_OnOperationalError
              /\ UNCHANGED <<pending_chunks, lastCommit>>
  /\ UNCHANGED <<runVars, multiVars, table, skip_rows, chunk_index, pos, chunk, batchStart, tries, fault,
                 total_inserted, loadStart, bound_cols>>

\* conn = connect(...); cur = conn.cursor()   (raises when it cannot connect)
S_Reconnect ==
  /\ loader = "single" /\ pc = "reconnect"
  /\ \E ok \in BOOLEAN :
       IF ok
         THEN /\ pc' = "insert"
              /\ UNCHANGED <<err, exitCode, committed, uncommitted>>
         ELSE S_Raise("reconnect")
  /\ UNCHANGED <<runVars, singleVars, multiVars, table, pos, chunk, batchStart, loadStart, bound_cols,
                 lastCommit>>

\* if pending_chunks > 0: conn.commit()      (outside the retry loop), then DONE
S_Final ==
  /\ loader = "single" /\ pc = "final"
  /\ IF pending_chunks > 0
       THEN \E ok \in BOOLEAN :
              IF ok
                THEN /\ committed' = [committed EXCEPT
                                        ![table] = commit(committed[table], uncommitted)]
                     /\ uncommitted' = << >>
                     /\ lastCommit' = committed'[table]
                     /\ pc' = "done"
                     /\ exitCode' = 0
                     /\ UNCHANGED err
                ELSE /\ S_Raise("final_commit")
                     /\ UNCHANGED lastCommit
       ELSE /\ pc' = "done"
            /\ exitCode' = 0
            /\ committed' = [committed EXCEPT
                               ![table] = S_close(committed[table], uncommitted)]
            /\ uncommitted' = << >>
            /\ UNCHANGED <<err, lastCommit>>
  /\ UNCHANGED <<runVars, singleVars, multiVars, table, pos, chunk, batchStart, loadStart, bound_cols>>

\* ----------------------------------------------------- load_csvs.py: main
\* if not os.path.isdir(csv_dir): exit 1; connect; csv_files = ordered_csv_files;
\* if not csv_files: exit 1
M_Start ==
  /\ loader = "multi" /\ pc = "start"
  /\ \E isdir \in BOOLEAN :
       IF ~isdir
         THEN /\ pc' = "failed"
              /\ err' = "no_dir"
              /\ exitCode' = 1
              /\ UNCHANGED csv_files
         ELSE /\ csv_files' = ordered_csv_files(dir_files)
              /\ IF csv_files' = << >>
                   THEN /\ pc' = "failed"
                        /\ err' = "no_csv"
                        /\ exitCode' = 1
                   ELSE /\ pc' = "load"
                        /\ UNCHANGED <<err, exitCode>>
  /\ UNCHANGED <<baseVars, loaded, singleVars, multiVars, committed, uncommitted, table, pos,
                 chunk, batchStart, loadStart, bound_cols, lastCommit>>

\* except Exception: print FAILED; conn.rollback(); break; then cursor.close(),
\* conn.close(), print Done. -- main returns, the exit code is 0.  On a session
\* that is lost conn.rollback() may raise in its turn: the exception leaves main
\* (exit code 1) and the server drops the session with its transaction.
M_OnException(reason) ==
  /\ err' = reason
  /\ committed' = [committed EXCEPT ![table] = M_rollback(committed[table], uncommitted)]
  /\ uncommitted' = << >>
  /\ \E rolled_back \in BOOLEAN :
       /\ reason \notin {"transient", "final_commit"} => rolled_back
       /\ IF ~rolled_back
            THEN /\ pc' = "failed"
                 /\ exitCode' = 1
                 /\ UNCHANGED table
            ELSE IF M_after_failure(table) <= Len(csv_files)
                   THEN /\ table' = M_after_failure(table)
                        /\ pc' = "load"
                        /\ UNCHANGED exitCode
                   ELSE /\ pc' = "done"
                        /\ exitCode' = 0
                        /\ UNCHANGED table

\* for file in csv_files: load_csv(...): table_cols = get_table_columns(...);
\* raise if empty.  After the last file: close, Done.
M_GetColumns ==
  /\ loader = "multi" /\ pc = "load"
  /\ \E exists \in BOOLEAN :
       IF exists
         THEN /\ pc' = "truncate"
              /\ UNCHANGED <<err, exitCode, committed, uncommitted, table>>
         ELSE M_OnException("no_table")
  /\ loadStart' = committed[table]
  /\ lastCommit' = committed[table]
  /\ loaded' = Append(loaded, csv_files[table])
  /\ UNCHANGED <<baseVars, csv_files, singleVars, multiVars, pos, chunk, batchStart, bound_cols>>

\* if truncate: truncate_table(...); conn.commit()
M_Truncate ==
  /\ loader = "multi" /\ pc = "truncate"
  /\ IF args.truncate
       THEN \E ok \in BOOLEAN :
              IF ok
                THEN /\ committed' = [committed EXCEPT
                                        ![table] = M_truncate_table(committed[table])]
                     /\ lastCommit' = committed'[table]
                     /\ pc' = "open"
                     /\ UNCHANGED <<err, exitCode, uncommitted, table>>
                ELSE /\ M_OnException("truncate_error")
                     /\ UNCHANGED lastCommit
       ELSE /\ pc' = "open"
            /\ UNCHANGED <<err, exitCode, committed, uncommitted, table, lastCommit>>
  /\ UNCHANGED <<runVars, singleVars, multiVars, pos, chunk, batchStart, loadStart, bound_cols>>

\* total = 0; pending_batches = 0; reader = pd.read_csv(csv_path, chunksize=...)
M_Open ==
  /\ loader = "multi" /\ pc = "open"
  /\ \E found \in BOOLEAN :
       IF found
         THEN /\ pos' = 0
              /\ total' = 0
              /\ pending_batches' = 0
              /\ pc' = "read"
              /\ UNCHANGED <<err, exitCode, committed, uncommitted, table>>
         ELSE /\ M_OnException("no_source")
              /\ UNCHANGED <<pos, total, pending_batches>>
  /\ UNCHANGED <<runVars, singleVars, chunk, batchStart, loadStart, bound_cols, lastCommit>>

\* for i, chunk in enumerate(reader, start=1)      (the loop ends at end of file)
M_Read ==
  /\ loader = "multi" /\ pc = "read"
  /\ IF pos < args.csv_rows
       THEN /\ chunk' = NextChunk(pos, args.chunksize, args.csv_rows)
            /\ batchStart' = committed[table]
            /\ pos' = pos + Len(chunk')
            /\ pc' = "insert"
       ELSE /\ pc' = "final"
            /\ UNCHANGED <<chunk, batchStart, pos>>
  /\ UNCHANGED <<runVars, singleVars, multiVars, committed, uncommitted, err,
                 exitCode, table, loadStart, bound_cols, lastCommit>>

\* insert_chunk(...); pending_batches += 1; total += len(chunk)   (no retry here)
M_Insert ==
  /\ loader = "multi" /\ pc = "insert"
  /\ LET checked == insert_chunk(table_cols, csv_cols) IN
     IF checked.error # "none"
       THEN /\ M_OnException(checked.error)
            /\ UNCHANGED <<pending_batches, total, bound_cols>>
       ELSE
         /\ bound_cols' = checked.bound
         /\ \E outcome \in {"ok", "transient", "nontransient"} :
              IF outcome = "ok"
                THEN /\ uncommitted' = uncommitted \o chunk
                     /\ pending_batches' = pending_batches + 1
                     /\ total' = total + Len(chunk)
                     /\ pc' = IF M_commit_due(pending_batches', args.commit_every)
                                THEN "commit" ELSE "read"
                     /\ UNCHANGED <<committed, err, exitCode, table>>
                ELSE /\ M_OnException(outcome)
                     /\ UNCHANGED <<pending_batches, total>>
  /\ UNCHANGED <<runVars, singleVars, pos, chunk, batchStart, loadStart, lastCommit>>

\* conn.commit(); pending_batches = 0
M_Commit ==
  /\ loader = "multi" /\ pc = "commit"
  /\ \E ok \in BOOLEAN :
       IF ok
         THEN /\ committed' = [committed EXCEPT
                                 ![table] = commit(committed[table], uncommitted)]
              /\ uncommitted' = << >>
              /\ lastCommit' = committed'[table]
              /\ pending_batches' = 0
              /\ pc' = "read"
              /\ UNCHANGED <<err, exitCode, table>>
         ELSE /\ M_OnException("transient")
              /\ UNCHANGED <<pending_batches, lastCommit>>
  /\ UNCHANGED <<runVars, singleVars, total, pos, chunk, batchStart, loadStart, bound_cols>>

\* if pending_batches > 0: conn.commit(); load_csv returns: next file, or after
\* the last one cursor.close(), conn.close(), Done.
M_Final ==
  /\ loader = "multi" /\ pc = "final"
  /\ \E ok \in BOOLEAN :
       IF pending_batches > 0 /\ ~ok
         THEN /\ M_OnException("final_commit")
              /\ UNCHANGED lastCommit
         ELSE /\ ok
              /\ committed' = [committed EXCEPT
                   ![table] = IF pending_batches > 0
                                THEN commit(committed[table], uncommitted)
                                ELSE committed[table]]
              /\ uncommitted' = IF pending_batches > 0 THEN << >> ELSE uncommitted
              /\ lastCommit' = committed'[table]
              /\ IF table + 1 <= Len(csv_files)
                   THEN /\ table' = table + 1
                        /\ pc' = "load"
                        /\ UNCHANGED exitCode
                   ELSE /\ pc' = "done"
                        /\ exitCode' = 0
                        /\ UNCHANGED table
              /\ UNCHANGED err
  /\ UNCHANGED <<runVars, singleVars, multiVars, pos, chunk, batchStart, loadStart, bound_cols>>

\* ------------------------------------------------------- the environment
\* The process is terminated: the server drops its session and transaction.
Crash ==
  /\ ~Ended
  /\ pc' = "crashed"
  /\ exitCode' = 1
  /\ uncommitted' = << >>
  /\ UNCHANGED <<runVars, singleVars, multiVars, committed, err, table, pos, chunk, batchStart,
                 loadStart, bound_cols, lastCommit>>

\* The script is started again on the same file and database.
Restart ==
  /\ Ended /\ run < MaxRuns
  /\ run' = run + 1
  /\ prev' = pc
  /\ \E tr \in BOOLEAN, re \in BOOLEAN :
       /\ loader = "multi" => re = FALSE
       /\ args' = [args EXCEPT !.truncate = tr, !.resume = re]
  /\ pc' = "start"
  /\ err' = "none"
  /\ exitCode' = 0
  /\ table' = 1
  /\ skip_rows' = 0
  /\ chunk_index' = 0
  /\ pos' = 0
  /\ chunk' = << >>
  /\ batchStart' = << >>
  /\ attempt' = 0
  /\ tries' = 0
  /\ fault' = "none"
  /\ pending_chunks' = 0
  /\ total_inserted' = 0
  /\ pending_batches' = 0
  /\ total' = 0
  /\ runStart' = committed
  /\ loadStart' = << >>
  /\ lastCommit' = << >>
  /\ bound_cols' = << >>
  /\ csv_files' = << >>
  /\ loaded' = << >>
  /\ UNCHANGED <<loader, committed, uncommitted, csv_cols, table_cols, dir_files>>

\* ------------------------------------------------------------------ claims
\* what a run of load_single.py without any failure leaves in the table
S_Expected ==
  (IF args.truncate THEN << >> ELSE loadStart) \o Rows(skip_rows, args.csv_rows)

\* C1: in load_single.py a run that reaches normal end of file leaves the target
\* holding exactly the rows a failure-free run leaves (every source row after
\* the skip offset once, none lost), whatever transient failures were recovered
\* on the way and whatever the commit cadence.
C1_RecoveredFailuresInvisible ==
  (loader = "single" /\ pc = "done") => committed[1] = S_Expected

\* positions of load_single.py at which the skip offset has been computed
S_Loading == pc \in {"open", "read", "insert", "commit", "reconnect", "final", "done"}

\* C2: resume correctness of load_single.py.  The first run started on the empty
\* table and was terminated after committing K rows; the second run, with resume
\* requested (and no truncate), sets its skip offset to K, inserts exactly the
\* remaining csv_rows - K rows, and once it has ended normally the table holds
\* every row of the source file exactly once, in file order.
C2_ResumeCorrect ==
  (loader = "single" /\ run = 2 /\ prev = "crashed" /\ args.resume /\ ~args.truncate
     /\ S_Loading)
    => /\ skip_rows = Len(runStart[1])
       /\ pc = "done" => /\ committed[1] = runStart[1] \o Rows(skip_rows, args.csv_rows)
                         /\ committed[1] = Rows(0, args.csv_rows)

\* C3 (as stated): in every reachable state of a table load the rows inserted
\* but not yet committed number at most (commit_every - 1) * chunksize.
C3_AtMostCadenceMinusOneBatches ==
  Len(uncommitted) <= (args.commit_every - 1) * args.chunksize

\* C3 (amended): in every reachable state of a table load, in either loader, the
\* rows inserted but not yet committed number at most commit_every * chunksize
\* (the commit is issued only after the commit_every-th batch is inserted).
C3_AtMostCadenceBatches ==
  Len(uncommitted) <= args.commit_every * args.chunksize

\* C3 witness: a full cadence of full batches is inserted and not yet committed.
C3_Witness ==
  /\ pc = "commit" /\ args.commit_every >= 2
  /\ Len(uncommitted) = args.commit_every * args.chunksize

C5_FailureKeepsLastCommit ==
  (Ended /\ err \in {"nontransient", "retries", "transient"})
    => (committed[table] = lastCommit /\ uncommitted = << >>)

\* C5 witness: load_csvs.py failed on a batch while an earlier batch of the same
\* table was inserted and not committed, the table holding rows from before.
C5_Witness ==
  /\ loader = "multi" /\ pc = "done" /\ err = "nontransient"
  /\ pending_batches > 0 /\ lastCommit # << >> /\ committed[table] = lastCommit

\* the rows of the table in hand that this load has made durable
LoadedRows ==
  LET kept == IF args.truncate THEN 0 ELSE Len(loadStart)
  IN  {committed[table][i] : i \in (kept + 1)..Len(committed[table])}

\* C6: when a table load finishes normally (final commit included), in either
\* loader, nothing is left uncommitted and every row the load inserted -- every
\* source row after the skip offset -- is committed.
C6_FinishedLoadIsCommitted ==
  (pc = "done" /\ err = "none")
    => /\ uncommitted = << >>
       /\ \A r \in (skip_rows + 1)..args.csv_rows : r \in LoadedRows

\* C7: a run that met a fatal condition ends with a nonzero exit code, in either
\* loader; exit code 0 means full success.
C7_FatalMeansNonzeroExit ==
  (Ended /\ err # "none") => exitCode # 0

\* C8: when the source file is missing or the target table is absent, the table
\* load aborts before any work: the table holds the rows it held when the load
\* began, also when truncate was requested.
C8_ConfigErrorLeavesTableUntouched ==
  err \in {"no_source", "no_table"} => committed[table] = loadStart

\* C9: with truncate and resume both requested, load_single.py uses skip offset 0
\* and its first chunk starts at the first data row of the source.
C9_TruncateDisablesResumeSkip ==
  (loader = "single" /\ args.truncate /\ args.resume /\ S_Loading)
    => /\ skip_rows = 0
       /\ (pc = "insert" /\ total_inserted = 0) => chunk[1] = 1

\* C9 witness: truncate and resume on a table that held rows; the first chunk
\* in hand starts at row 1.
C9_Witness ==
  /\ loader = "single" /\ args.truncate /\ args.resume /\ loadStart # << >>
  /\ pc = "insert" /\ total_inserted = 0 /\ chunk[1] = 1 /\ skip_rows = 0

\* C10: in load_csvs.py, once a table's load has failed fatally the run is over:
\* no table after the failed one is started (it holds what it held when the run
\* began, also when truncate was requested) and every table loaded before it
\* keeps the rows that load committed.
C10_NoTableAfterFailure ==
  (loader = "multi" /\ err \notin {"none", "no_dir", "no_csv"})
    => /\ Ended
       /\ uncommitted = << >>
       /\ \A t \in Tables :
            /\ t > table => committed[t] = runStart[t]
            /\ t < table => committed[t] =
                 (IF args.truncate THEN << >> ELSE runStart[t]) \o Rows(0, args.csv_rows)

\* C10 witness: the first table failed in a run with truncate while the second
\* table held rows, and the second table still holds them.
C10_Witness ==
  /\ loader = "multi" /\ err = "nontransient" /\ pc = "done" /\ args.truncate
  /\ table = 1 /\ runStart[2] # << >> /\ committed[2] = runStart[2]

\* ------------------------------------------------------------------ C11
\* the insert step has run at least once in this run
InsertAttempted ==
  \/ loader = "single" /\ tries >= 1
  \/ loader = "multi" /\ pos > 0 /\ pc \notin {"insert", "crashed"}

SameNamesIgnoringCase ==
  {Lower(c) : c \in Range(csv_cols)} = {Lower(c) : c \in Range(table_cols)}

SchemaError == err \in {"missing_columns", "extra_columns"}

\* C11: the insert step succeeds in reconciling exactly when the header and the
\* target table have the same names ignoring case, and then every target column
\* is sent the values of a source field equal to it ignoring case.  Otherwise
\* it fails with the Missing condition when a target column has no source
\* field, else with the Extra condition, and no insert has been executed: the
\* open transaction is empty and nothing was bound.
C11_StrictCaseInsensitiveReconciliation ==
  /\ SameNamesIgnoringCase => ~SchemaError
  /\ bound_cols # << >> =>
       /\ SameNamesIgnoringCase
       /\ Len(bound_cols) = Len(table_cols)
       /\ \A i \in DOMAIN table_cols :
            /\ bound_cols[i] \in Range(csv_cols)
            /\ Lower(bound_cols[i]) = Lower(table_cols[i])
  /\ (InsertAttempted /\ ~SameNamesIgnoringCase) =>
       /\ SchemaError
       /\ err = "missing_columns" <=>
            \E t \in Range(table_cols) :
              \A c \in Range(csv_cols) : Lower(c) # Lower(t)
       /\ err = "extra_columns" =>
            \E c \in Range(csv_cols) :
              \A t \in Range(table_cols) : Lower(c) # Lower(t)
  /\ ~SameNamesIgnoringCase => (bound_cols = << >> /\ uncommitted = << >>)
  /\ SchemaError => ~SameNamesIgnoringCase

\* a header that differs from the table in case and order was reconciled and a
\* batch inserted
C11_Witness ==
  /\ bound_cols # << >>
  /\ csv_cols # table_cols
  /\ \E i \in DOMAIN table_cols : bound_cols[i] # table_cols[i]
  /\ Len(table_cols) = 2 /\ bound_cols[1] = csv_cols[2]
  /\ uncommitted # << >>


\* ------------------------------------------------------------------ C12
CeilDiv(a, b) == (a + b - 1) \div b

C13_RetryStateMachine ==
  [][loader = "single" /\ pc' # "crashed" =>
       /\ pc = "reconnect" => (pc' = "insert" /\ chunk' = chunk /\ attempt' = attempt)
       /\ (pc \in {"insert", "commit", "reconnect"} /\ pc' = "failed") =>
            \/ err' \in {"nontransient", "missing_columns", "extra_columns"}
            \/ err' = "retries" /\ attempt' > args.max_retries]_vars


\* ------------------------------------------------------------------ C14
\* the pending counter of the loader that runs
Pending == IF loader = "single" THEN pending_chunks ELSE pending_batches

\* C14: in both loaders a successful batch insert adds one to the pending
\* counter; the commit is the next step exactly when the counter has reached
\* commit_every; a successful commit sets the counter to zero; and whenever
\* the next batch is about to be read 0 <= pending < commit_every.
C14_CommitCadence ==
  [][/\ (pc = "insert" /\ pc' \in {"read", "commit"}) =>
          /\ Pending' = Pending + 1
          /\ uncommitted' = uncommitted \o chunk
          /\ pc' = "commit" <=> Pending' >= args.commit_every
     /\ (pc = "commit" /\ pc' = "read") =>
          /\ Pending >= args.commit_every
          /\ Pending' = 0
          /\ uncommitted' = << >>
          /\ committed'[table] = committed[table] \o uncommitted
     /\ pc' = "read" => (0 <= Pending' /\ Pending' < args.commit_every)]_vars

\* the second batch of a cadence of two has been committed and the counter
\* reset; the third batch is about to be read
C14_Witness ==
  /\ pc = "read" /\ args.commit_every = 2 /\ Pending = 0
  /\ pos = 2 * args.chunksize /\ pos < args.csv_rows
  /\ uncommitted = << >> /\ Len(committed[table]) >= pos


\* ------------------------------------------------------------------ C15
\* C15: in load_single.py an error on a batch that is not of the connectivity
\* class (the ValueError of the column check, a constraint or type error) ends
\* the run at once with a non-zero exit code: the step that raises it makes no
\* reconnect and counts no retry, leaves the table as it was and the open
\* transaction discarded, and after it nothing happens in the run -- the batch
\* is not attempted again and no later batch is inserted or committed.
C15_NonTransientFailsAtOnce ==
  [][loader = "single" =>
       /\ (pc = "insert" /\ fault' = "nontransient") =>
            /\ pc' = "failed" /\ exitCode' # 0
            /\ err' \in {"nontransient", "missing_columns", "extra_columns"}
            /\ attempt' = attempt
            /\ committed' = committed
            /\ uncommitted' = << >>
       /\ (pc = "failed" /\ fault = "nontransient") => run' = run + 1]_vars

\* a batch failed with a non-transient error after an earlier batch was
\* committed, retries being allowed
C15_Witness ==
  /\ loader = "single" /\ pc = "failed" /\ err = "nontransient"
  /\ fault = "nontransient" /\ args.max_retries >= 1 /\ attempt = 0
  /\ committed[1] # << >> /\ pos < args.csv_rows


\* ------------------------------------------------------------------ C16
StrictlyIncreasing(sq) == \A i \in 1..(Len(sq) - 1) : sq[i] < sq[i + 1]

\* the load in hand has not come to truncate its table
NotTruncated ==
  \/ ~args.truncate
  \/ pc = "truncate"
  \/ err \in {"no_dir", "no_csv", "no_table", "truncate_error"}
  \/ pc = "crashed" /\ lastCommit = loadStart

\* the rows the load in hand has committed to its table so far: what its last
\* commit left in the table, beyond the rows the table held when the load
\* began unless the load has truncated them
CommittedByLoad ==
  IF args.truncate /\ ~NotTruncated THEN lastCommit
  ELSE SubSeq(lastCommit, Len(loadStart) + 1, Len(lastCommit))

\* C16: at every point of a run of either loader, the rows the load in hand
\* has committed are source rows in file order, none of them twice (their row
\* numbers increase strictly), also when transient failures were recovered by
\* reconnecting; between commits the table holds what the last commit left.
C16_CommittedInSourceOrderOnce ==
  /\ StrictlyIncreasing(CommittedByLoad)
  /\ \A i \in DOMAIN CommittedByLoad : CommittedByLoad[i] \in 1..args.csv_rows
  /\ NotTruncated =>
       /\ Len(lastCommit) >= Len(loadStart)
       /\ SubSeq(lastCommit, 1, Len(loadStart)) = loadStart
  /\ pc \in {"read", "insert", "commit", "reconnect", "final"} =>
       committed[table] = lastCommit

\* load_single.py ended normally after a reconnect on its last batch, with at
\* least two rows committed
C16_Witness ==
  /\ loader = "single" /\ pc = "done" /\ attempt >= 1
  /\ Len(CommittedByLoad) >= 2 /\ committed[1] = lastCommit


\* ------------------------------------------------------------------ C17
\* C17: whenever the column check passes, for every header, the source fields
\* bound to the target columns are as many as the target columns, no source
\* field is bound to two target columns, and every source field of the header
\* is bound to a target column (none is dropped).
C17_ReconciliationIsBijection ==
  bound_cols # << >> =>
    /\ Len(bound_cols) = Len(table_cols)
    /\ \A i, j \in DOMAIN bound_cols : i # j => bound_cols[i] # bound_cols[j]
    /\ Range(bound_cols) = Range(csv_cols)


\* ------------------------------------------------------------------ C18
\* C18: in a run of load_single.py, whatever fails and however often, every
\* batch read starts with the attempt counter at zero, no batch gets more than
\* max_retries + 1 calls of insert_chunk nor more than max_retries + 1 counted
\* failures, and the run eventually ends, normally (all batches read and the
\* final commit made) or with a fatal failure.  The runs of load_csvs.py end
\* as well.
C18_Termination ==
  /\ [][(loader = "single" /\ pc = "read" /\ pc' = "insert") =>
          (attempt' = 0 /\ tries' = 0)]_vars
  /\ [](loader = "single" =>
          /\ tries <= args.max_retries + 1
          /\ attempt <= args.max_retries + 1
          /\ pc \in {"insert", "commit", "reconnect"} => attempt <= args.max_retries
          /\ pc = "done" => (pos >= args.csv_rows /\ uncommitted = << >>))
  /\ <>(pc \in {"done", "failed"})

\* a run of two batches ended normally after the second batch used up every
\* retry it was allowed
C18_Witness ==
  /\ loader = "single" /\ pc = "done" /\ chunk_index >= 2
  /\ args.max_retries >= 1 /\ attempt = args.max_retries
  /\ tries = args.max_retries + 1


\* ------------------------------------------------------------------ C19
Preferred(f) == f \in Range(PREFERRED_LOAD_ORDER)

\* C19: the list ordered_csv_files returns holds every CSV file of the
\* directory once and nothing else; the files named in the preferred load
\* order come first, in that order, the other files follow in ascending order
\* of their names (as Python compares strings: capitals before small
\* letters).  load_csv is called for the files in the order of the list, one
\* at a time -- a load begins with no transaction open -- and a run that ends
\* without failure has loaded all of them.
C19_PreferredThenAlphabetical ==
  pc \notin {"start", "crashed"} /\ err # "no_dir" =>
    /\ Range(csv_files) = {f \in dir_files : endswith_csv(f)}
    /\ \A i, j \in DOMAIN csv_files : i < j =>
         /\ csv_files[i] # csv_files[j]
         /\ Preferred(csv_files[j]) => Preferred(csv_files[i])
         /\ (Preferred(csv_files[i]) /\ Preferred(csv_files[j])) =>
              IndexIn(PREFERRED_LOAD_ORDER, csv_files[i])
                < IndexIn(PREFERRED_LOAD_ORDER, csv_files[j])
         /\ (~Preferred(csv_files[i]) /\ ~Preferred(csv_files[j])) =>
              Before(csv_files[i], csv_files[j])
    /\ Len(loaded) <= Len(csv_files)
    /\ loaded = SubSeq(csv_files, 1, Len(loaded))
    /\ pc \in {"truncate", "open", "read", "insert", "commit", "final"} =>
         Len(loaded) = table
    /\ pc = "truncate" => uncommitted = << >>
    /\ (pc = "done" /\ err = "none") => loaded = csv_files

\* a directory with a preferred file, a file with a capital first letter and a
\* file that is no CSV was loaded to the end: the preferred file first
C19_Witness ==
  /\ loader = "multi" /\ pc = "done" /\ err = "none"
  /\ File("notes", ".txt") \in dir_files
  /\ Len(loaded) = 2 /\ loaded[1] = File("patients", ".csv")
  /\ loaded[2] = File("Zips", ".csv")


\* ------------------------------------------------------------------ C20
\* C20: in load_single.py, whenever insert_chunk is about to be called for a
\* batch, pending_chunks is the number of batches inserted and not committed
\* in the live session (each of them a full batch), and total_inserted is the
\* number of rows the load has committed plus the rows uncommitted in the live
\* session; also after a reconnect and after a commit that raised.
C20_CountersMatchSession ==
  (loader = "single" /\ pc = "insert") =>
    /\ pending_chunks * args.chunksize = Len(uncommitted)
    /\ total_inserted = Len(CommittedByLoad) + Len(uncommitted)


Next ==
  \/ S_GetColumns \/ S_Truncate \/ S_Resume \/ S_Open \/ S_Read
  \/ S_Insert \/ S_Commit \/ S_Reconnect \/ S_Final
  \/ M_Start \/ M_GetColumns \/ M_Truncate \/ M_Open \/ M_Read
  \/ M_Insert \/ M_Commit \/ M_Final
  \/ Crash \/ Restart

Spec == Init /\ [][Next]_vars

\* one run of a loader from its start to its end, the process never killed
RunNext ==
  \/ S_GetColumns \/ S_Truncate \/ S_Resume \/ S_Open \/ S_Read
  \/ S_Insert \/ S_Commit \/ S_Reconnect \/ S_Final
  \/ M_Start \/ M_GetColumns \/ M_Truncate \/ M_Open \/ M_Read
  \/ M_Insert \/ M_Commit \/ M_Final

\* one run of a loader whose process keeps running: the scripts are sequential
\* and every statement returns or raises, the backoff sleep is finite
SpecRun == Init /\ [][RunNext]_vars /\ WF_vars(RunNext)

\* one run of load_csvs.py
MultiNext ==
  \/ M_Start \/ M_GetColumns \/ M_Truncate \/ M_Open \/ M_Read
  \/ M_Insert \/ M_Commit \/ M_Final

\* one run of load_csvs.py on every directory of the bounded file universe
SpecDirectories == InitDirectories /\ [][MultiNext]_vars

\* a step of load_single.py in which no statement raises
NoFailure == err' = "none" /\ pc' # "reconnect"

R_GetColumns == S_GetColumns /\ NoFailure
R_Truncate == S_Truncate /\ NoFailure
R_Resume == S_Resume /\ NoFailure
R_Open == S_Open /\ NoFailure
R_Read == S_Read /\ NoFailure
R_Insert == S_Insert /\ NoFailure
R_Commit == S_Commit /\ NoFailure
R_Final == S_Final /\ NoFailure

\* a failure-free run of load_single.py
ReaderNext ==
  \/ R_GetColumns \/ R_Truncate \/ R_Resume \/ R_Open \/ R_Read
  \/ R_Insert \/ R_Commit \/ R_Final

SpecReader == InitReader /\ [][ReaderNext]_vars

\* one run of a loader on every header and table of the bounded name universe
SpecColumns == InitColumns /\ [][RunNext]_vars
====
